---- MODULE Spec2Model ----
(***************************************************************************)
(* State-machine model of azkeyvault-perm-tester (src/main.go).            *)
(*                                                                         *)
(* One run of main(): flag resolution, credential and client construction, *)
(* then the SIGN, VERIFY and GET probes against the remote key service and *)
(* the final report.  Init is the state right after flag.Parse() returned  *)
(* (main.go:26).  Every remote call is two steps, the request being issued *)
(* and its response arriving, so that the order of the calls is something  *)
(* the model checker observes and not something the model assumes.         *)
(*                                                                         *)
(* Go values:  a []byte is [nil, bytes] (a nil slice has no bytes), a      *)
(* *string is [nil, s], a *bool is one of "nil", "true", "false", and an   *)
(* error is its message, NoErr standing for the nil error.                 *)
(* Console lines are strings; the two status glyphs that main.go prints in *)
(* front of "SIGN failed", "SIGN successful" etc. are non-ASCII and are    *)
(* left out of the modelled text.                                          *)
(***************************************************************************)
EXTENDS Integers, Sequences, FiniteSets, TLC

VARIABLES
    pc,          \* position of main()
    args,        \* the command line: per boolean flag "absent", "true" or "false"
    vaultURL,    \* *vaultURL
    keyName,     \* *keyName
    algorithm,   \* *algorithm
    skipAll,     \* *skipAll
    testSign,    \* *testSign
    testVerify,  \* *testVerify
    testGet,     \* *testGet
    cred,        \* "none", "ok", "failed": azidentity.NewDefaultAzureCredential
    client,      \* "none", "ok", "failed": azkeys.NewClient
    signature,   \* var signature []byte
    testNum,     \* testNum
    calls,       \* the remote requests issued, in order, with their arguments
    events,      \* the requests and responses on the wire, in order
    signResp,    \* what client.Sign returned
    verifyResp,  \* what client.Verify returned
    getResp,     \* what client.GetKey returned
    keyInfo,     \* the *keyInfo doTestGetKey returned
    output,      \* lines written to standard output
    errout,      \* lines written to standard error
    exitCode     \* process exit status, Running while the process runs

vars == << pc, args, vaultURL, keyName, algorithm, skipAll, testSign, testVerify,
           testGet, cred, client, signature, testNum, calls, events, signResp,
           verifyResp, getResp, keyInfo, output, errout, exitCode >>

----------------------------------------------------------------------------
(* Bounds and input domains *)

MaxSigLen == 2

DummySigLen == 256

Byte == {0, 1}

TestFlags == {"test-sign", "test-verify", "test-get"}

BoolFlags == TestFlags \cup {"skip-all"}

Algorithms == {"RS256", "RS384", "RS512", "PS256", "PS384", "PS512",
               "ES256", "ES256K", "ES384", "ES512"}

VaultURLs == {"", "https://v.vault.azure.net/"}

KeyNames == {"", "k1"}

RemoteErrors == {"Forbidden", "KeyNotFound"}

KeyTypeLabels == {"RSA", "RSA-HSM", "EC", "EC-HSM", "oct", "oct-HSM", "rsa-hsm", "RSA-HSM2"}

KeyIDs == {"https://v.vault.azure.net/keys/k1/abc"}

NoErr == "<nil>"

Running == -1

----------------------------------------------------------------------------
(* Go values *)

NilBytes == [nil |-> TRUE, bytes |-> << >>]

Bytes(b) == [nil |-> FALSE, bytes |-> b]

NilString == [nil |-> TRUE, s |-> ""]

StringPtr(s) == [nil |-> FALSE, s |-> s]

MakeBytes(n) == Bytes([i \in 1..n |-> 0])

BoundedBytes == UNION {[1..n -> Byte] : n \in 0..MaxSigLen}

SignResults == {NilBytes} \cup {Bytes(b) : b \in BoundedBytes} \cup {MakeBytes(DummySigLen)}

SignResponses ==
    {[err |-> e, result |-> NilBytes] : e \in RemoteErrors}
        \cup {[err |-> NoErr, result |-> r] : r \in SignResults}

VerifyResponses ==
    {[err |-> e, value |-> "nil"] : e \in RemoteErrors}
        \cup {[err |-> NoErr, value |-> v] : v \in {"nil", "true", "false"}}

GetResponses ==
    {[err |-> e, kid |-> NilString, kty |-> NilString] : e \in RemoteErrors}
        \cup {[err |-> NoErr, kid |-> k, kty |-> t] :
                k \in {NilString} \cup {StringPtr(x) : x \in KeyIDs},
                t \in {NilString} \cup {StringPtr(x) : x \in KeyTypeLabels}}

NotCalled == "<none>"

NoSignResp == [err |-> NotCalled, result |-> NilBytes]

NoVerifyResp == [err |-> NotCalled, value |-> "nil"]

NoGetResp == [err |-> NotCalled, kid |-> NilString, kty |-> NilString]

NoKeyInfo == [nil |-> TRUE, keyType |-> "", hsmProtected |-> FALSE]

----------------------------------------------------------------------------
(* Pure functions *)

\* flag.Bool: the value given on the command line, the default when absent.
FlagValue(a, name, default) ==
    IF a[name] = "absent" THEN default ELSE a[name] = "true"

\* flag.Visit visits exactly the flags that were set on the command line.
Visited(a) == {f \in BoolFlags : a[f] # "absent"}

\* main.go:33-49: the value of a test-* flag after the skip-all block.
ResolveTestFlag(skip, parsed, name, a) ==
    IF skip THEN name \in Visited(a) ELSE parsed

\* main.go:28
RequiredMissingBoth(url, key) == url = "" /\ key = ""

RequiredMissing(url, key) == url = "" \/ key = ""

\* main.go:127
NoTestsSelectedIgnoringGet(s, v, g) == ~s /\ ~v

NoTestsSelected(s, v, g) == ~s /\ ~v /\ ~g

\* crypto/sha256.Sum256 of the fixed test message: one fixed 32-byte digest.
TestData == "Test message for Azure Key Vault signing and verification"

Sum256(data) == "sha256(" \o data \o ")"

\* encoding/base64.StdEncoding.EncodeToString
B64Alphabet == "ABCDEFGHIJKLMNOPQRSTUVWXYZabcdefghijklmnopqrstuvwxyz0123456789+/"

B64Char(i) == SubSeq(B64Alphabet, i + 1, i + 1)

\* One 3-byte group (the last one may hold 1 or 2 bytes and is padded with "=").
B64Group(g) ==
    IF Len(g) = 1 THEN
        LET n == g[1] * 65536
        IN  B64Char(n \div 262144) \o B64Char((n \div 4096) % 64) \o "=="
    ELSE IF Len(g) = 2 THEN
        LET n == g[1] * 65536 + g[2] * 256
        IN  B64Char(n \div 262144) \o B64Char((n \div 4096) % 64)
                \o B64Char((n \div 64) % 64) \o "="
    ELSE
        LET n == g[1] * 65536 + g[2] * 256 + g[3]
        IN  B64Char(n \div 262144) \o B64Char((n \div 4096) % 64)
                \o B64Char((n \div 64) % 64) \o B64Char(n % 64)

Min(x, y) == IF x < y THEN x ELSE y

\* The encoding of groups lo..hi of b, by halving (the groups are independent).
RECURSIVE B64Groups(_, _, _)
B64Groups(b, lo, hi) ==
    IF lo = hi
    THEN B64Group(SubSeq(b, 3 * lo - 2, Min(3 * lo, Len(b))))
    ELSE LET mid == (lo + hi) \div 2
         IN  B64Groups(b, lo, mid) \o B64Groups(b, mid + 1, hi)

EncodeToString(b) ==
    IF Len(b) = 0 THEN "" ELSE B64Groups(b, 1, (Len(b) + 2) \div 3)

\* doTestSign, main.go:140-145: the ([]byte, error) it returns for a response.
DoTestSignResult(resp) ==
    IF resp.err # NoErr
    THEN [sig |-> NilBytes, err |-> "sign operation failed: " \o resp.err]
    ELSE [sig |-> resp.result, err |-> NoErr]

\* doTestVerify, main.go:155-164: the error it returns for a response.
DoTestVerifyResultNilIsTrue(resp) ==
    IF resp.err # NoErr THEN "verify operation failed: " \o resp.err
    ELSE IF resp.value # "false" THEN NoErr
    ELSE "signature verification failed"

DoTestVerifyResult(resp) ==
    IF resp.err # NoErr THEN "verify operation failed: " \o resp.err
    ELSE IF resp.value # "nil" /\ resp.value = "true" THEN NoErr
    ELSE "signature verification failed"

\* doTestGetKey, main.go:187: the HSM test on the key type label.
IsHSMKeyType(kty) == kty = "RSA-HSM" \/ kty = "EC-HSM"

\* doTestGetKey, main.go:178-192: the keyInfo built from a successful response.
BuildKeyInfo(resp) ==
    IF resp.kty.nil
    THEN [nil |-> FALSE, keyType |-> "", hsmProtected |-> FALSE]
    ELSE [nil |-> FALSE, keyType |-> resp.kty.s, hsmProtected |-> IsHSMKeyType(resp.kty.s)]

\* fmt's %v of a bool
FormatBool(b) == IF b THEN "true" ELSE "false"

----------------------------------------------------------------------------
(* Console lines *)

UsageLine == "Usage of azkeyvault-perm-tester:"

SignHeader(n) == ToString(n) \o ". Testing SIGN permission..."

VerifyHeader(n) == ToString(n) \o ". Testing VERIFY permission..."

GetHeader(n) == ToString(n) \o ". Testing GET permission (key info retrieval)..."

SignFailedLine(e) == "   SIGN failed: " \o e

SignOkLine == "   SIGN successful"

SignatureLine(sig) == "   Signature: " \o EncodeToString(sig.bytes)

DummyNoteLine ==
    "   No signature available from sign test, using dummy signature for verify test"

VerifyFailedLine(e) == "   VERIFY failed: " \o e

VerifyOkLine == "   VERIFY successful"

GetFailedLine(e) == "   GET failed: " \o e

GetOkLine == "   GET successful"

NoTestsLine == "No tests selected. Use -test-sign, -test-verify, or -test-get flags."

CompletedLine == "Permission test completed."

BannerLines ==
    << "Testing Azure Key Vault permissions for key: " \o keyName,
       "Vault URL: " \o vaultURL,
       "Algorithm: " \o algorithm,
       "Note: HSM vs Software keys are determined by the key's protection level, not the algorithm",
       "" >>

----------------------------------------------------------------------------
(* The run *)

Init ==
    /\ pc = "checkRequired"
    /\ args \in [BoolFlags -> {"absent", "true", "false"}]
    /\ vaultURL \in VaultURLs
    /\ keyName \in KeyNames
    /\ algorithm \in Algorithms
    /\ skipAll = FlagValue(args, "skip-all", FALSE)
    /\ testSign = FlagValue(args, "test-sign", TRUE)
    /\ testVerify = FlagValue(args, "test-verify", TRUE)
    /\ testGet = FlagValue(args, "test-get", TRUE)
    /\ cred = "none"
    /\ client = "none"
    /\ signature = NilBytes
    /\ testNum = 0
    /\ calls = << >>
    /\ events = << >>
    /\ signResp = NoSignResp
    /\ verifyResp = NoVerifyResp
    /\ getResp = NoGetResp
    /\ keyInfo = NoKeyInfo
    /\ output = << >>
    /\ errout = << >>
    /\ exitCode = Running

\* os.Exit(code), and log.Fatalf, which prints to standard error and exits 1.
Exit(code, msgs) ==
    /\ pc' = "exited"
    /\ exitCode' = code
    /\ errout' = errout \o msgs

\* The arguments of a remote request; a field the operation does not take is empty.
SignRequest ==
    [op |-> "Sign", keyName |-> keyName, algorithm |-> algorithm,
     digest |-> Sum256(TestData), signature |-> NilBytes]

VerifyRequest(sig) ==
    [op |-> "Verify", keyName |-> keyName, algorithm |-> algorithm,
     digest |-> Sum256(TestData), signature |-> sig]

GetKeyRequest ==
    [op |-> "GetKey", keyName |-> keyName, algorithm |-> "",
     digest |-> "", signature |-> NilBytes]

Issue(req) ==
    /\ calls' = Append(calls, req)
    /\ events' = Append(events, [ev |-> "call", op |-> req.op])

Return(op) == events' = Append(events, [ev |-> "ret", op |-> op])

\* main.go:28-31
CheckRequired ==
    /\ pc = "checkRequired"
    /\ IF RequiredMissing(vaultURL, keyName)
       THEN Exit(1, << UsageLine >>)
       ELSE /\ pc' = "skipAll"
            /\ UNCHANGED << exitCode, errout >>
    /\ UNCHANGED << args, vaultURL, keyName, algorithm, skipAll, testSign, testVerify,
                    testGet, cred, client, signature, testNum, calls, events, signResp,
                    verifyResp, getResp, keyInfo, output >>

\* main.go:33-49
ResolveSkipAll ==
    /\ pc = "skipAll"
    /\ testSign' = ResolveTestFlag(skipAll, testSign, "test-sign", args)
    /\ testVerify' = ResolveTestFlag(skipAll, testVerify, "test-verify", args)
    /\ testGet' = ResolveTestFlag(skipAll, testGet, "test-get", args)
    /\ pc' = "newCredential"
    /\ UNCHANGED << args, vaultURL, keyName, algorithm, skipAll, cred, client, signature,
                    testNum, calls, events, signResp, verifyResp, getResp, keyInfo,
                    output, errout, exitCode >>

\* main.go:51-56
NewCredential ==
    /\ pc = "newCredential"
    /\ \E ok \in BOOLEAN :
        IF ok
        THEN /\ cred' = "ok"
             /\ pc' = "newClient"
             /\ UNCHANGED << exitCode, errout >>
        ELSE /\ cred' = "failed"
             /\ Exit(1, << "Failed to obtain credentials: error" >>)
    /\ UNCHANGED << args, vaultURL, keyName, algorithm, skipAll, testSign, testVerify,
                    testGet, client, signature, testNum, calls, events, signResp,
                    verifyResp, getResp, keyInfo, output >>

\* main.go:58-61
NewClient ==
    /\ pc = "newClient"
    /\ \E ok \in BOOLEAN :
        IF ok
        THEN /\ client' = "ok"
             /\ pc' = "banner"
             /\ UNCHANGED << exitCode, errout >>
        ELSE /\ client' = "failed"
             /\ Exit(1, << "Failed to create Key Vault client: error" >>)
    /\ UNCHANGED << args, vaultURL, keyName, algorithm, skipAll, testSign, testVerify,
                    testGet, cred, signature, testNum, calls, events, signResp,
                    verifyResp, getResp, keyInfo, output >>

\* main.go:63-75
Banner ==
    /\ pc = "banner"
    /\ output' = output \o BannerLines
    /\ signature' = NilBytes
    /\ testNum' = 1
    /\ pc' = "sign"
    /\ UNCHANGED << args, vaultURL, keyName, algorithm, skipAll, testSign, testVerify,
                    testGet, cred, client, calls, events, signResp, verifyResp, getResp,
                    keyInfo, errout, exitCode >>

\* A variant of SignBegin that does not wait for the response of client.Sign.
SignBeginNoWait ==
    /\ pc = "sign"
    /\ IF testSign
       THEN /\ output' = Append(output, SignHeader(testNum))
            /\ testNum' = testNum + 1
            /\ Issue(SignRequest)
            /\ pc' = "verify"
       ELSE /\ pc' = "verify"
            /\ UNCHANGED << output, testNum, calls, events >>
    /\ UNCHANGED << args, vaultURL, keyName, algorithm, skipAll, testSign, testVerify,
                    testGet, cred, client, signature, signResp, verifyResp, getResp,
                    keyInfo, errout, exitCode >>

\* main.go:77-81 and doTestSign, main.go:134-140: up to the call of client.Sign
SignBegin ==
    /\ pc = "sign"
    /\ IF testSign
       THEN /\ output' = Append(output, SignHeader(testNum))
            /\ testNum' = testNum + 1
            /\ Issue(SignRequest)
            /\ pc' = "signWait"
       ELSE /\ pc' = "verify"
            /\ UNCHANGED << output, testNum, calls, events >>
    /\ UNCHANGED << args, vaultURL, keyName, algorithm, skipAll, testSign, testVerify,
                    testGet, cred, client, signature, signResp, verifyResp, getResp,
                    keyInfo, errout, exitCode >>

\* A variant of SignReturn in which a failed Sign ends the run (log.Fatalf).
SignReturnFatal ==
    /\ pc = "signWait"
    /\ \E resp \in SignResponses :
        LET r == DoTestSignResult(resp)
        IN  /\ signResp' = resp
            /\ Return("Sign")
            /\ signature' = r.sig
            /\ IF r.err # NoErr
               THEN /\ Exit(1, << SignFailedLine(r.err) >>)
                    /\ UNCHANGED output
               ELSE /\ output' = output \o << SignOkLine, SignatureLine(r.sig), "" >>
                    /\ pc' = "verify"
                    /\ UNCHANGED << errout, exitCode >>
    /\ UNCHANGED << args, vaultURL, keyName, algorithm, skipAll, testSign, testVerify,
                    testGet, cred, client, testNum, calls, verifyResp, getResp, keyInfo >>

\* doTestSign, main.go:140-145, and main.go:81-89: client.Sign has returned
SignReturn ==
    /\ pc = "signWait"
    /\ \E resp \in SignResponses :
        LET r == DoTestSignResult(resp)
        IN  /\ signResp' = resp
            /\ Return("Sign")
            /\ signature' = r.sig
            /\ output' = output \o
                    (IF r.err # NoErr
                     THEN << SignFailedLine(r.err) >>
                     ELSE << SignOkLine, SignatureLine(r.sig) >>)
                    \o << "" >>
    /\ pc' = "verify"
    /\ UNCHANGED << args, vaultURL, keyName, algorithm, skipAll, testSign, testVerify,
                    testGet, cred, client, testNum, calls, verifyResp, getResp, keyInfo,
                    errout, exitCode >>

\* main.go:91-102 and doTestVerify, main.go:148-155: up to the call of client.Verify
VerifyBegin ==
    /\ pc = "verify"
    /\ IF testVerify
       THEN LET useDummy == signature.nil /\ ~testSign
                sig == IF useDummy THEN MakeBytes(DummySigLen) ELSE signature
                out == output \o << VerifyHeader(testNum) >>
                              \o (IF useDummy THEN << DummyNoteLine >> ELSE << >>)
            IN  /\ testNum' = testNum + 1
                /\ signature' = sig
                /\ IF ~sig.nil
                   THEN /\ Issue(VerifyRequest(sig))
                        /\ output' = out
                        /\ pc' = "verifyWait"
                   ELSE /\ output' = out \o << "" >>
                        /\ pc' = "get"
                        /\ UNCHANGED << calls, events >>
       ELSE /\ pc' = "get"
            /\ UNCHANGED << output, testNum, signature, calls, events >>
    /\ UNCHANGED << args, vaultURL, keyName, algorithm, skipAll, testSign, testVerify,
                    testGet, cred, client, signResp, verifyResp, getResp, keyInfo,
                    errout, exitCode >>

\* doTestVerify, main.go:155-164, and main.go:102-109: client.Verify has returned
VerifyReturn ==
    /\ pc = "verifyWait"
    /\ \E resp \in VerifyResponses :
        LET e == DoTestVerifyResult(resp)
        IN  /\ verifyResp' = resp
            /\ Return("Verify")
            /\ output' = output \o
                    << IF e # NoErr THEN VerifyFailedLine(e) ELSE VerifyOkLine, "" >>
    /\ pc' = "get"
    /\ UNCHANGED << args, vaultURL, keyName, algorithm, skipAll, testSign, testVerify,
                    testGet, cred, client, signature, testNum, calls, signResp, getResp,
                    keyInfo, errout, exitCode >>

\* main.go:112-114 and doTestGetKey, main.go:172-173: up to the call of client.GetKey
GetBegin ==
    /\ pc = "get"
    /\ IF testGet
       THEN /\ output' = Append(output, GetHeader(testNum))
            /\ Issue(GetKeyRequest)
            /\ pc' = "getWait"
       ELSE /\ pc' = "finish"
            /\ UNCHANGED << output, calls, events >>
    /\ UNCHANGED << args, vaultURL, keyName, algorithm, skipAll, testSign, testVerify,
                    testGet, cred, client, signature, testNum, signResp, verifyResp,
                    getResp, keyInfo, errout, exitCode >>

\* doTestGetKey, main.go:173-192, and main.go:114-125: client.GetKey has returned
GetReturn ==
    /\ pc = "getWait"
    /\ \E resp \in GetResponses :
        /\ getResp' = resp
        /\ Return("GetKey")
        /\ IF resp.err # NoErr
           THEN /\ keyInfo' = NoKeyInfo
                /\ output' = output \o
                        << GetFailedLine("get key operation failed: " \o resp.err), "" >>
           ELSE LET info == BuildKeyInfo(resp)
                IN  /\ keyInfo' = info
                    /\ output' = output
                            \o (IF ~resp.kid.nil
                                THEN << "   Key ID: " \o resp.kid.s >> ELSE << >>)
                            \o << GetOkLine,
                                  "   Key Type: " \o info.keyType,
                                  "   HSM Protected: " \o FormatBool(info.hsmProtected),
                                  "" >>
    /\ pc' = "finish"
    /\ UNCHANGED << args, vaultURL, keyName, algorithm, skipAll, testSign, testVerify,
                    testGet, cred, client, signature, testNum, calls, signResp,
                    verifyResp, errout, exitCode >>

\* main.go:127-132
Finish ==
    /\ pc = "finish"
    /\ output' = output
            \o (IF NoTestsSelected(testSign, testVerify, testGet)
                THEN << NoTestsLine >> ELSE << >>)
            \o << CompletedLine >>
    /\ pc' = "exited"
    /\ exitCode' = 0
    /\ UNCHANGED << args, vaultURL, keyName, algorithm, skipAll, testSign, testVerify,
                    testGet, cred, client, signature, testNum, calls, events, signResp,
                    verifyResp, getResp, keyInfo, errout >>

Next ==
    \/ CheckRequired
    \/ ResolveSkipAll
    \/ NewCredential
    \/ NewClient
    \/ Banner
    \/ SignBegin
    \/ SignReturn
    \/ VerifyBegin
    \/ VerifyReturn
    \/ GetBegin
    \/ GetReturn
    \/ Finish

Spec == Init /\ [][Next]_vars

----------------------------------------------------------------------------
(* Vocabulary of the properties *)

Range(seq) == {seq[i] : i \in 1..Len(seq)}

CallsOf(op) == {i \in 1..Len(calls) : calls[i].op = op}

Occurrences(seq, x) == Cardinality({i \in 1..Len(seq) : seq[i] = x})

HasSuffix(s, suffix) ==
    /\ Len(s) >= Len(suffix)
    /\ SubSeq(s, Len(s) - Len(suffix) + 1, Len(s)) = suffix

\* The skip-all block has run: the three test-* flags hold their resolved values.
FlagsResolved == pc \notin {"checkRequired", "skipAll"} /\ vaultURL # "" /\ keyName # ""

\* The VERIFY probe is over (main.go:110 has been passed).
VerifyProbeOver ==
    \/ pc \in {"get", "getWait", "finish"}
    \/ pc = "exited" /\ exitCode = 0

SignSucceeded == signResp.err = NoErr

SignFailed == signResp.err \in RemoteErrors

VerifyReturned == verifyResp.err # NotCalled

Call(op) == [ev |-> "call", op |-> op]

Ret(op) == [ev |-> "ret", op |-> op]

Rank(op) == CASE op = "Sign" -> 1 [] op = "Verify" -> 2 [] op = "GetKey" -> 3

InFlight ==
    {op \in {"Sign", "Verify", "GetKey"} :
        Occurrences(events, Call(op)) > Occurrences(events, Ret(op))}

\* Signature sizes in bytes: RSA with a 2048-bit key, ECDSA as two field elements.
ExpectedSignatureSize(alg) ==
    CASE alg \in {"RS256", "RS384", "RS512", "PS256", "PS384", "PS512"} -> 256
      [] alg \in {"ES256", "ES256K"} -> 64
      [] alg = "ES384" -> 96
      [] alg = "ES512" -> 132

\* Some line follows the VERIFY header before the blank line that ends the probe.
VerifyLineEmitted ==
    \E i \in 1..(Len(output) - 1) :
        /\ \E n \in 1..3 : output[i] = VerifyHeader(n)
        /\ output[i + 1] # ""

----------------------------------------------------------------------------
(* Properties *)

\* C1 (as claimed): under skip-all=true every test-* flag resolves to the value
\* explicitly supplied for it (a supplied false to false, a supplied true to true),
\* and a test-* flag that was not supplied resolves to false.
C1_FlagPrecedence ==
    (FlagsResolved /\ args["skip-all"] = "true") =>
        /\ testSign = (args["test-sign"] = "true")
        /\ testVerify = (args["test-verify"] = "true")
        /\ testGet = (args["test-get"] = "true")

\* C2 (as claimed): when Sign is enabled and client.Sign succeeded returning S, and
\* Verify is enabled, client.Verify is called with a signature argument equal to S,
\* for every S, the empty one included.
C2_SignatureThreading ==
    (VerifyProbeOver /\ testSign /\ SignSucceeded /\ testVerify) =>
        \E i \in CallsOf("Verify") : calls[i].signature = signResp.result

C5_HsmDerivation ==
    (pc \in {"finish", "exited"} /\ getResp.err = NoErr /\ ~getResp.kty.nil) =>
        keyInfo.hsmProtected = HasSuffix(getResp.kty.s, "-HSM")

\* C6 (as claimed): when Sign is enabled and failed remotely and Verify is enabled,
\* no Verify request is issued and the VERIFY probe prints an informational note.
C6_VerifySkippedWithNote ==
    (VerifyProbeOver /\ testSign /\ SignFailed /\ testVerify) =>
        /\ CallsOf("Verify") = {}
        /\ VerifyLineEmitted

\* C7: once client.Verify has returned, VERIFY is reported successful exactly when
\* the call returned no error and a present, true boolean; no error with a false or
\* absent boolean is reported as "signature verification failed", and a rejected
\* call as "verify operation failed: ...", never as the former.
C7_VerifyOutcome ==
    VerifyReturned =>
        LET semantic == VerifyFailedLine("signature verification failed")
            rejected == VerifyFailedLine("verify operation failed: " \o verifyResp.err)
        IN  /\ (VerifyOkLine \in Range(output))
                    <=> (verifyResp.err = NoErr /\ verifyResp.value = "true")
            /\ (verifyResp.err = NoErr /\ verifyResp.value \in {"nil", "false"})
                    => (semantic \in Range(output))
            /\ verifyResp.err # NoErr
                    => (rejected \in Range(output) /\ semantic \notin Range(output))
            /\ semantic # rejected

\* C7 witness: client.Verify returned no error and no boolean, reported as failure.
C7_Witness ==
    /\ verifyResp.err = NoErr
    /\ verifyResp.value = "nil"
    /\ VerifyFailedLine("signature verification failed") \in Range(output)

\* What C8 says of a finished run: no remote request, one "No tests selected" line
\* directly followed by the completion line, which ends the output, and status 0.
NoOpRun ==
    /\ calls = << >>
    /\ exitCode = 0
    /\ Occurrences(output, NoTestsLine) = 1
    /\ Len(output) >= 2
    /\ output[Len(output) - 1] = NoTestsLine
    /\ output[Len(output)] = CompletedLine

\* C8 (as claimed): with the required flags present and all three test-* flags
\* resolved false, the run makes no remote request, prints exactly one "No tests
\* selected" line followed by the completion line and exits 0; and that line is
\* printed in no run where a probe flag resolved true.
C8_NoOpScenario_AsClaimed ==
    /\ (pc = "exited" /\ FlagsResolved /\ ~testSign /\ ~testVerify /\ ~testGet)
            => NoOpRun
    /\ (FlagsResolved /\ (testSign \/ testVerify \/ testGet))
            => NoTestsLine \notin Range(output)

\* C8 (amended): the same, for the runs in which the credential and the client
\* were constructed.
C8_NoOpScenario ==
    /\ (pc = "exited" /\ FlagsResolved /\ cred = "ok" /\ client = "ok"
            /\ ~testSign /\ ~testVerify /\ ~testGet)
            => NoOpRun
    /\ (FlagsResolved /\ (testSign \/ testVerify \/ testGet))
            => NoTestsLine \notin Range(output)

\* C8 witness: a finished run with every probe disabled that printed the line.
C8_Witness ==
    /\ pc = "exited"
    /\ exitCode = 0
    /\ ~testSign /\ ~testVerify /\ ~testGet
    /\ calls = << >>
    /\ NoTestsLine \in Range(output)

\* C9: the remote requests are issued in the order Sign, Verify, GetKey, each at
\* most once; every response directly follows its request, so a request is issued
\* only after every earlier one has returned and at most one is in flight; and
\* when Sign is enabled it has returned before Verify is issued.
C9_Sequencing ==
    /\ Cardinality(InFlight) <= 1
    /\ \A i, j \in 1..Len(calls) : i < j => Rank(calls[i].op) < Rank(calls[j].op)
    /\ \A i \in 1..Len(events) :
        IF events[i].ev = "ret"
        THEN i > 1 /\ events[i - 1] = Call(events[i].op)
        ELSE /\ i > 1 => events[i - 1].ev = "ret"
             /\ (events[i].op = "Verify" /\ testSign)
                    => \E j \in 1..(i - 1) : events[j] = Ret("Sign")
    /\ Len(calls) = Cardinality({i \in 1..Len(events) : events[i].ev = "call"})

\* C9 witness: all three requests were issued and have returned.
C9_Witness ==
    events = << Call("Sign"), Ret("Sign"), Call("Verify"), Ret("Verify"),
                Call("GetKey"), Ret("GetKey") >>

\* C10 (as claimed): when Sign is not enabled and Verify is enabled, exactly one
\* Verify request is issued and its signature is all zeros with the length of a
\* signature of the configured algorithm.
C10_StandaloneVerify ==
    (VerifyProbeOver /\ ~testSign /\ testVerify) =>
        /\ Cardinality(CallsOf("Verify")) = 1
        /\ \A i \in CallsOf("Verify") :
            calls[i].signature = MakeBytes(ExpectedSignatureSize(algorithm))

====
